---- MODULE Spec2Model ----
(***************************************************************************)
(* News aggregator: the TTL cache (src/utils/cache.js) and the             *)
(* fetch-fallback-cache pipeline (src/services/newsService.js).            *)
(*                                                                         *)
(* JavaScript strings are sequences of UTF-16 code units; every other      *)
(* JavaScript value is a record tagged by its kind, so that null,          *)
(* undefined, numbers, strings and arrays can be told apart.               *)
(***************************************************************************)
EXTENDS Integers, Sequences, FiniteSets, TLC

VARIABLES now, ticks, cache, config, calls, invalidations,
          last, prev, ops, written, expiredSeen,
          users, signups, requests

vars == <<now, ticks, cache, config, calls, invalidations,
          last, prev, ops, written, expiredSeen,
          users, signups, requests>>

(***************************************************************************)
(* Bounds of the model.                                                    *)
(***************************************************************************)
MaxTicks == 1
MaxCalls == 2
MaxOps == 3
MaxInvalidations == 1
MaxPrefs == 2

(***************************************************************************)
(* JavaScript values.                                                      *)
(***************************************************************************)
Null == [kind |-> "null"]

Undefined == [kind |-> "undefined"]

Num(n) == [kind |-> "number", n |-> n]

Arr(items) == [kind |-> "array", items |-> items]

Text(tmpl, arg) == [kind |-> "string", tmpl |-> tmpl, arg |-> arg]

Date(ms) == [kind |-> "date", ms |-> ms]

\* !v  for the values the cache and the pipeline handle
Falsy(v) ==
    \/ v.kind = "null"
    \/ v.kind = "undefined"
    \/ (v.kind = "number" /\ v.n = 0)

(***************************************************************************)
(* Strings: the topics and the pieces of a cache key, as code units.       *)
(***************************************************************************)
S_a == <<97>>

S_b == <<98>>

S_a_comma_b == <<97, 44, 98>>

S_general == <<103, 101, 110, 101, 114, 97, 108>>

S_newsColon == <<110, 101, 119, 115, 58>>

S_comma == <<44>>

S_newsGeneral == S_newsColon \o S_general

\* s < t as Array.prototype.sort compares strings without a comparator:
\* by code units, a proper prefix first
StrLess(s, t) ==
    \E i \in 1..(Len(t)) :
        /\ \A j \in 1..(i - 1) : j <= Len(s) /\ s[j] = t[j]
        /\ (i > Len(s) \/ (i <= Len(s) /\ s[i] < t[i]))

RECURSIVE Insert(_, _)
Insert(x, sorted) ==
    IF sorted = <<>> THEN <<x>>
    ELSE IF StrLess(x, Head(sorted)) THEN <<x>> \o sorted
    ELSE <<Head(sorted)>> \o Insert(x, Tail(sorted))

\* the array left as it was
SortStringsNoop(arr) == arr

\* preferences.sort(): the array after the in-place sort
RECURSIVE SortStrings(_)
SortStrings(arr) ==
    IF arr = <<>> THEN <<>>
    ELSE Insert(arr[Len(arr)], SortStrings(SubSeq(arr, 1, Len(arr) - 1)))

\* arr.join(sep)
RECURSIVE Join(_, _)
Join(arr, sep) ==
    IF arr = <<>> THEN <<>>
    ELSE IF Len(arr) = 1 THEN arr[1]
    ELSE arr[1] \o sep \o Join(Tail(arr), sep)

(***************************************************************************)
(* src/utils/cache.js: the process-wide Cache.  The store is a function    *)
(* from keys to entries {data, expiresAt, cachedAt}.                       *)
(***************************************************************************)
\* config.cache.ttl, in milliseconds
DefaultTtl == 5 * 60 * 1000

EmptyStore == <<>>

Without(c, key) == [k \in DOMAIN c \ {key} |-> c[k]]

With(c, key, entry) == [k \in DOMAIN c \cup {key} |-> IF k = key THEN entry ELSE c[k]]

\* generateKey(preferences): the key returned
GenerateKey(preferences) ==
    IF Falsy(preferences) \/ Len(preferences.items) = 0
    THEN S_newsGeneral
    ELSE S_newsColon \o Join(SortStrings(preferences.items), S_comma)

\* generateKey(preferences): the caller's array after the call
\* (preferences.sort() sorts in place)
AfterGenerateKey(preferences) ==
    IF Falsy(preferences) \/ Len(preferences.items) = 0
    THEN preferences
    ELSE Arr(SortStrings(preferences.items))

\* expiry one tick early
ExpiredAtExpiry(item, t) == t >= item.expiresAt

Expired(item, t) == t > item.expiresAt

\* get without the expiry check
CacheGetNoExpiryCheck(c, key, t) ==
    IF key \notin DOMAIN c THEN Null ELSE c[key].data

\* get that already misses at the expiry time itself
CacheGetEarlyExpiry(c, key, t) ==
    IF key \notin DOMAIN c THEN Null
    ELSE IF t >= c[key].expiresAt THEN Null
    ELSE c[key].data

\* get(key): the value returned at time t
CacheGet(c, key, t) ==
    IF key \notin DOMAIN c THEN Null
    ELSE IF Expired(c[key], t) THEN Null
    ELSE c[key].data

\* get that removes every expired entry it comes across, not only its own
CacheAfterGetSweep(c, key, t) ==
    [k \in {j \in DOMAIN c : ~Expired(c[j], t)} |-> c[k]]

\* get that renews the expiry of the entry it returns
CacheAfterGetSliding(c, key, t) ==
    IF key \in DOMAIN c /\ Expired(c[key], t) THEN Without(c, key)
    ELSE IF key \in DOMAIN c
    THEN [c EXCEPT ![key].expiresAt = t + DefaultTtl]
    ELSE c

\* get that leaves an expired entry in the store
CacheAfterGetKeep(c, key, t) == c

\* get(key): the store after the call
CacheAfterGet(c, key, t) ==
    IF key \in DOMAIN c /\ Expired(c[key], t) THEN Without(c, key) ELSE c

\* const ttl = customTtl || this.ttl
EffectiveTtl(customTtl) == IF Falsy(customTtl) THEN DefaultTtl ELSE customTtl.n

\* set that appends the new articles to those already under the key
CacheSetMerging(c, key, data, customTtl, t) ==
    With(c, key, [data |-> IF key \in DOMAIN c /\ c[key].data.kind = "array"
                              /\ data.kind = "array"
                           THEN Arr(c[key].data.items \o data.items)
                           ELSE data,
                  expiresAt |-> t + EffectiveTtl(customTtl),
                  cachedAt |-> Date(t)])

\* set(key, data, customTtl): the store after the call at time t
CacheSet(c, key, data, customTtl, t) ==
    With(c, key, [data |-> data,
                  expiresAt |-> t + EffectiveTtl(customTtl),
                  cachedAt |-> Date(t)])

CacheDelete(c, key) == Without(c, key)

CacheClear(c) == EmptyStore

\* stats whose valid count does not leave out the expired entries
GetStatsValidIsTotal(c, t) ==
    [totalEntries |-> Cardinality(DOMAIN c),
     validEntries |-> Cardinality(DOMAIN c),
     expiredEntries |-> Cardinality({k \in DOMAIN c : Expired(c[k], t)}),
     ttlMs |-> DefaultTtl]

\* getStats() at time t
GetStats(c, t) ==
    [totalEntries |-> Cardinality(DOMAIN c),
     validEntries |-> Cardinality({k \in DOMAIN c : ~Expired(c[k], t)}),
     expiredEntries |-> Cardinality({k \in DOMAIN c : Expired(c[k], t)}),
     ttlMs |-> DefaultTtl]

(***************************************************************************)
(* The clock (Date.now()): it only moves forward.                          *)
(***************************************************************************)
TickDeltas == {DefaultTtl, DefaultTtl + 1}

\* a clock whose every tick also sweeps the expired entries out of the store
TickSweeping ==
    /\ ticks < MaxTicks
    /\ \E d \in TickDeltas :
          /\ now' = now + d
          /\ cache' = [k \in {j \in DOMAIN cache : ~Expired(cache[j], now + d)} |-> cache[k]]
    /\ ticks' = ticks + 1
    /\ UNCHANGED <<users, signups, requests, config, calls, invalidations, last, prev, ops, written, expiredSeen>>

Tick ==
    /\ ticks < MaxTicks
    /\ \E d \in TickDeltas : now' = now + d
    /\ ticks' = ticks + 1
    /\ UNCHANGED <<users, signups, requests, cache, config, calls, invalidations, last, prev, ops, written, expiredSeen>>

(***************************************************************************)
(* Direct calls of the cache's methods, as its tests and tooling make      *)
(* them.  last and prev record the two most recent calls; written[k] is    *)
(* the latest set on k not yet deleted or cleared; expiredSeen is the set  *)
(* of keys a get has seen expired since their latest set.                  *)
(***************************************************************************)
NoOp == [op |-> "none"]

Topics == {S_a, S_b, S_a_comma_b, S_general}

RECURSIVE SeqsUpTo(_, _)
SeqsUpTo(S, n) ==
    IF n = 0 THEN {<<>>}
    ELSE LET shorter == SeqsUpTo(S, n - 1)
         IN  shorter \cup {Append(s, x) : s \in {q \in shorter : Len(q) = n - 1}, x \in S}

KeyInputs == {Null} \cup {Arr(p) : p \in SeqsUpTo(Topics, MaxPrefs)}

Keys == {S_newsGeneral, S_newsColon \o S_a}

Values == {Null, Arr(<<>>), Arr(<<Text("v1", <<>>)>>)}

Ttls == {Undefined, Num(0), Num(1)}

OpGenerateKey ==
    /\ \E p \in KeyInputs :
          last' = [op |-> "generateKey", arg |-> p, res |-> GenerateKey(p),
                   argAfter |-> AfterGenerateKey(p), before |-> cache]
    /\ prev' = last
    /\ UNCHANGED <<users, signups, requests, now, ticks, cache, config, calls, invalidations, ops, written, expiredSeen>>

OpGet ==
    /\ ops < MaxOps
    /\ \E key \in Keys :
          /\ last' = [op |-> "get", key |-> key, at |-> now, before |-> cache,
                      res |-> CacheGet(cache, key, now),
                      seenExpiredBefore |-> key \in expiredSeen]
          /\ cache' = CacheAfterGet(cache, key, now)
          /\ expiredSeen' = IF key \in DOMAIN cache /\ Expired(cache[key], now)
                            THEN expiredSeen \cup {key} ELSE expiredSeen
    /\ prev' = last
    /\ ops' = ops + 1
    /\ UNCHANGED <<users, signups, requests, now, ticks, config, calls, invalidations, written>>

OpSet ==
    /\ ops < MaxOps
    /\ \E key \in Keys, data \in Values, customTtl \in Ttls :
          /\ cache' = CacheSet(cache, key, data, customTtl, now)
          /\ last' = [op |-> "set", key |-> key, at |-> now, before |-> cache,
                      data |-> data, customTtl |-> customTtl]
          /\ written' = With(written, key, [data |-> data,
                                            expiresAt |-> cache'[key].expiresAt])
          /\ expiredSeen' = expiredSeen \ {key}
    /\ prev' = last
    /\ ops' = ops + 1
    /\ UNCHANGED <<users, signups, requests, now, ticks, config, calls, invalidations>>

OpDelete ==
    /\ ops < MaxOps
    /\ \E key \in Keys :
          /\ cache' = CacheDelete(cache, key)
          /\ last' = [op |-> "delete", key |-> key, at |-> now, before |-> cache]
          /\ written' = Without(written, key)
    /\ prev' = last
    /\ ops' = ops + 1
    /\ UNCHANGED <<users, signups, requests, now, ticks, config, calls, invalidations, expiredSeen>>

OpClear ==
    /\ ops < MaxOps
    /\ cache' = CacheClear(cache)
    /\ last' = [op |-> "clear", at |-> now, before |-> cache]
    /\ written' = EmptyStore
    /\ prev' = last
    /\ ops' = ops + 1
    /\ UNCHANGED <<users, signups, requests, now, ticks, config, calls, invalidations, expiredSeen>>

OpGetStats ==
    /\ ops < MaxOps
    /\ last' = [op |-> "getStats", at |-> now, before |-> cache,
                res |-> GetStats(cache, now)]
    /\ prev' = last
    /\ ops' = ops + 1
    /\ UNCHANGED <<users, signups, requests, now, ticks, cache, config, calls, invalidations, written, expiredSeen>>

\* the process after start-up, the providers' API keys set or not
InitWith(cfg) ==
    /\ now = 0
    /\ ticks = 0
    /\ cache = EmptyStore
    /\ config = cfg
    /\ calls = <<>>
    /\ invalidations = 0
    /\ last = NoOp
    /\ prev = NoOp
    /\ ops = 0
    /\ written = EmptyStore
    /\ expiredSeen = {}
    /\ users = <<>>
    /\ signups = <<>>
    /\ requests = <<>>

NoKeys == [gnewsApiKey |-> FALSE, newsApiKey |-> FALSE]

InitCache == InitWith(NoKeys)

\* key derivation alone
NextKey == OpGenerateKey

SpecKey == InitCache /\ [][NextKey]_vars

\* the cache driven directly
NextCache == Tick \/ OpGet \/ OpSet \/ OpDelete \/ OpClear \/ OpGetStats

SpecCache == InitCache /\ [][NextCache]_vars

(***************************************************************************)
(* src/services/newsService.js: the providers.  A provider's answer is     *)
(* what axios delivers: a failure (network, timeout, non-2xx status) or a  *)
(* response whose data may or may not hold an articles array.              *)
(***************************************************************************)
S_or == <<32, 79, 82, 32>>

\* the q parameter of the request
BuildQuery(preferences) ==
    IF Len(preferences) > 0 THEN Join(preferences, S_or) ELSE S_general

\* obj.f, undefined when the property is missing
Field(obj, f) == IF f \in DOMAIN obj THEN obj[f] ELSE Undefined

Str(s) == Text(s, <<>>)

Obj(fields) == [kind |-> "object"] @@ fields

G1 == [title |-> Str("g1"), description |-> Str("g1 description"),
       content |-> Str("g1 content"), url |-> Str("https://g/1"),
       image |-> Str("https://g/1.png"), publishedAt |-> Str("2024-01-01T00:00:00Z"),
       source |-> Obj([name |-> Str("G Source"), url |-> Str("https://g")])]

G2 == [title |-> Str("g2"), content |-> Str("g2 content"), url |-> Str("https://g/2"),
       publishedAt |-> Str("2024-01-02T00:00:00Z"),
       source |-> Obj([name |-> Str("G Source")])]

GBad == [title |-> Str("g3"), url |-> Str("https://g/3")]

N1 == [title |-> Str("n1"), description |-> Str("n1 description"),
       content |-> Str("n1 content"), url |-> Str("https://n/1"),
       urlToImage |-> Str("https://n/1.png"), publishedAt |-> Str("2024-01-03T00:00:00Z"),
       source |-> Obj([id |-> Null, name |-> Str("N Source")])]

NBad == [title |-> Str("n2"), url |-> Str("https://n/2"), source |-> Null]

NetworkError == [kind |-> "error"]

Response(data) == [kind |-> "response", data |-> data]

GNewsResponses ==
    {NetworkError, Response(Null), Response(Obj(<<>>)),
     Response(Obj([articles |-> Arr(<<>>)])),
     Response(Obj([articles |-> Arr(<<G1>>)])),
     Response(Obj([articles |-> Arr(<<G2, G1>>)])),
     Response(Obj([articles |-> Arr(<<G1, GBad>>)]))}

NewsAPIResponses ==
    {NetworkError, Response(Null),
     Response(Obj([articles |-> Arr(<<>>)])),
     Response(Obj([articles |-> Arr(<<N1>>)])),
     Response(Obj([articles |-> Arr(<<NBad>>)]))}

\* what a provider call comes to
Returned(value) == [kind |-> "returned", value |-> value]

Threw == [kind |-> "threw"]

NotCalled == [kind |-> "notCalled"]

\* article.source.name is a TypeError when article.source is undefined or null
HasSource(article) == ~Falsy(Field(article, "source"))

MapGNews(article) ==
    [title |-> Field(article, "title"),
     description |-> Field(article, "description"),
     content |-> Field(article, "content"),
     url |-> Field(article, "url"),
     image |-> Field(article, "image"),
     publishedAt |-> Field(article, "publishedAt"),
     source |-> [name |-> Field(article.source, "name"),
                 url |-> Field(article.source, "url")]]

MapNewsAPI(article) ==
    [title |-> Field(article, "title"),
     description |-> Field(article, "description"),
     content |-> Field(article, "content"),
     url |-> Field(article, "url"),
     image |-> Field(article, "urlToImage"),
     publishedAt |-> Field(article, "publishedAt"),
     source |-> [name |-> Field(article.source, "name"),
                 url |-> Null]]

HasArticles(resp) ==
    /\ ~Falsy(resp.data)
    /\ ~Falsy(Field(resp.data, "articles"))

\* fetchFromGNews: resp is the answer to its request, read only when the
\* API key is set
FetchFromGNews(cfg, resp) ==
    IF ~cfg.gnewsApiKey THEN Returned(Null)
    ELSE IF resp.kind = "error" THEN Threw
    ELSE IF HasArticles(resp)
         THEN LET articles == resp.data.articles.items
              IN  IF \A i \in 1..Len(articles) : HasSource(articles[i])
                  THEN Returned(Arr([i \in 1..Len(articles) |-> MapGNews(articles[i])]))
                  ELSE Threw
    ELSE Returned(Arr(<<>>))

\* fetchFromNewsAPI sending its request whether or not the key is set
FetchFromNewsAPIWithoutKeyCheck(cfg, resp) ==
    IF resp.kind = "error" THEN Threw
    ELSE IF HasArticles(resp)
         THEN LET articles == resp.data.articles.items
              IN  IF \A i \in 1..Len(articles) : HasSource(articles[i])
                  THEN Returned(Arr([i \in 1..Len(articles) |-> MapNewsAPI(articles[i])]))
                  ELSE Threw
    ELSE Returned(Arr(<<>>))

\* fetchFromNewsAPI
FetchFromNewsAPI(cfg, resp) ==
    IF ~cfg.newsApiKey THEN Returned(Null)
    ELSE IF resp.kind = "error" THEN Threw
    ELSE IF HasArticles(resp)
         THEN LET articles == resp.data.articles.items
              IN  IF \A i \in 1..Len(articles) : HasSource(articles[i])
                  THEN Returned(Arr([i \in 1..Len(articles) |-> MapNewsAPI(articles[i])]))
                  ELSE Threw
    ELSE Returned(Arr(<<>>))

(***************************************************************************)
(* generateMockNews.  rnd[i] is Math.random() * 259200000 for the i-th     *)
(* extra article.                                                          *)
(***************************************************************************)
DayMs == 86400000

RandomOffsets == {0, DayMs + 1}

MockSource(name) == [name |-> Str(name), url |-> Str("https://example.com")]

Upper(c) == IF c \in 97..122 THEN c - 32 ELSE c

\* topic.charAt(0).toUpperCase() + topic.slice(1)
Capitalize(topic) ==
    IF topic = <<>> THEN <<>> ELSE <<Upper(topic[1])>> \o Tail(topic)

MockBase(topic, t) ==
    << [title |-> Text("Latest updates in ${topics[0]} industry", topic),
        description |-> Text("Breaking news and developments in the ${topics[0]} sector that you need to know about today.", topic),
        content |-> Text("This is a comprehensive article about the latest trends and updates in ${topics[0]}. Stay informed with our in-depth coverage...", topic),
        url |-> Text("https://example.com/news/${topics[0]}/article-1", topic),
        image |-> Text("https://picsum.photos/seed/${topics[0]}/800/400", topic),
        publishedAt |-> Date(t),
        source |-> MockSource("Mock News Source")],
       [title |-> Text("Top ${topics[0]} stories of the week", topic),
        description |-> Text("A roundup of the most important ${topics[0]} news from this week.", topic),
        content |-> Text("Here are the top stories you might have missed in ${topics[0]} this week...", topic),
        url |-> Text("https://example.com/news/${topics[0]}/article-2", topic),
        image |-> Text("https://picsum.photos/seed/${topics[0]}2/800/400", topic),
        publishedAt |-> Date(t - DayMs),
        source |-> MockSource("Weekly Digest")],
       [title |-> Text("Expert analysis on ${topics[0]} trends", topic),
        description |-> Text("Industry experts share their insights on where ${topics[0]} is heading.", topic),
        content |-> Text("Our panel of experts discusses the future of ${topics[0]} and what to expect in the coming months...", topic),
        url |-> Text("https://example.com/news/${topics[0]}/article-3", topic),
        image |-> Text("https://picsum.photos/seed/${topics[0]}3/800/400", topic),
        publishedAt |-> Date(t - 2 * DayMs),
        source |-> MockSource("Expert Insights")] >>

MockExtra(topic, t, r) ==
    [title |-> Text("${Topic} news update", Capitalize(topic)),
     description |-> Text("The latest news and updates about ${topic}.", topic),
     content |-> Text("Detailed coverage of ${topic} news and developments...", topic),
     url |-> Text("https://example.com/news/${topic}/latest", topic),
     image |-> Text("https://picsum.photos/seed/${topic}/800/400", topic),
     publishedAt |-> Date(t - r),
     source |-> MockSource("Topic News")]

MockTopics(preferences) ==
    IF Len(preferences) > 0 THEN preferences ELSE <<S_general>>

\* the three base articles only
GenerateMockNewsBaseOnly(preferences, t, rnd) ==
    MockBase(MockTopics(preferences)[1], t)

GenerateMockNews(preferences, t, rnd) ==
    LET topics == MockTopics(preferences)
    IN  MockBase(topics[1], t)
        \o [i \in 1..(Len(topics) - 1) |-> MockExtra(topics[i + 1], t, rnd[i])]

(***************************************************************************)
(* getNews and searchNews.  A call runs without interruption up to its     *)
(* next await; calls is the sequence of the calls made so far, each with   *)
(* its place (pc), its locals and what it has observed.                    *)
(*   given        the array handed to getNews, as the caller built it      *)
(*   preferences  the same array as the call goes on (generateKey sorts    *)
(*                it in place)                                             *)
(*   removed, overwritten                                                  *)
(*                since the call stored its entry: a delete or clear took  *)
(*                it away, another call's set replaced it                  *)
(***************************************************************************)
\* news && news.length > 0
Usable(news) == ~Falsy(news) /\ Len(news.items) > 0

\* the fallback taken whatever the provider returned
AlwaysNeedsNext(news) == TRUE

\* the fallback taken only when the provider returned nothing at all
NeedsNextOnlyWhenAbsent(news) == Falsy(news)

\* !news || news.length === 0
NeedsNext(news) == Falsy(news) \/ Len(news.items) = 0

\* the provider's exception let through
AfterTryRethrow(news, outcome) ==
    IF outcome.kind = "threw"
    THEN [rejected |-> TRUE, news |-> news]
    ELSE [rejected |-> FALSE, news |-> outcome.value]

\* try { news = await fetch...(preferences) } catch (error) { }
AfterTry(news, outcome) ==
    IF outcome.kind = "threw"
    THEN [rejected |-> FALSE, news |-> news]
    ELSE [rejected |-> FALSE, news |-> outcome.value]

\* the search run on the query alone
SearchTermsQueryOnly(query, preferences) == <<query>>

\* const searchTerms = [...(preferences || []), query]
SearchTerms(query, preferences) ==
    (IF Falsy(preferences) THEN <<>> ELSE preferences.items) \o <<query>>

IsStoredMiss(call) == call.pc = "done" /\ ~call.ret.cached

MarkOverwritten(cs, key) ==
    [c \in DOMAIN cs |->
        IF IsStoredMiss(cs[c]) /\ cs[c].cacheKey = key
        THEN [cs[c] EXCEPT !.overwritten = TRUE] ELSE cs[c]]

MarkRemoved(cs, keys) ==
    [c \in DOMAIN cs |->
        IF IsStoredMiss(cs[c]) /\ cs[c].cacheKey \in keys
        THEN [cs[c] EXCEPT !.removed = TRUE] ELSE cs[c]]

\* what getNews(given) returns when it finds cachedNews
HitReturn(cachedNews) == [news |-> cachedNews, cached |-> TRUE, source |-> "cache"]

\* the cache not consulted: every call goes on to the providers
GetNewsAlwaysFetches(c, given, t) == Null

\* what getNews(given) returns before any await, with the store c at time t:
\* Null when it goes on to the providers
GetNewsAtOnce(c, given, t) ==
    LET cachedNews == CacheGet(c, GenerateKey(Arr(given)), t)
    IN  IF ~Falsy(cachedNews) THEN HitReturn(cachedNews) ELSE Null

\* both providers asked at once, before either has answered
BeginBothAtOnce(op, query, args, given) ==
    LET cacheKey == GenerateKey(Arr(given))
        preferences == AfterGenerateKey(Arr(given)).items
        cachedNews == CacheGet(cache, cacheKey, now)
        atOnce == GetNewsAtOnce(cache, given, now)
        hit == atOnce # Null
        call == [pc |-> IF hit THEN "done" ELSE "awaitGNews",
                 op |-> op, query |-> query, args |-> args, given |-> given,
                 preferences |-> preferences, cacheKey |-> cacheKey,
                 cachedNews |-> cachedNews,
                 gnews |-> NotCalled, newsapi |-> NotCalled,
                 netCalls |-> IF hit THEN <<>>
                              ELSE <<[to |-> "gnews", q |-> BuildQuery(preferences)],
                                     [to |-> "newsapi", q |-> BuildQuery(preferences)]>>,
                 news |-> Null, source |-> "mock",
                 ret |-> atOnce,
                 finishedAt |-> IF hit THEN now ELSE -1,
                 rnd |-> <<>>, expiresAt |-> -1,
                 removed |-> FALSE, overwritten |-> FALSE]
    IN  /\ Len(calls) < MaxCalls
        /\ cache' = CacheAfterGet(cache, cacheKey, now)
        /\ calls' = Append(calls, call)
        /\ UNCHANGED <<now, ticks, config, invalidations,
                       last, prev, ops, written, expiredSeen>>

\* getNews(given) up to its first await
Begin(op, query, args, given) ==
    LET cacheKey == GenerateKey(Arr(given))
        preferences == AfterGenerateKey(Arr(given)).items
        cachedNews == CacheGet(cache, cacheKey, now)
        atOnce == GetNewsAtOnce(cache, given, now)
        hit == atOnce # Null
        call == [pc |-> IF hit THEN "done" ELSE "awaitGNews",
                 op |-> op, query |-> query, args |-> args, given |-> given,
                 preferences |-> preferences, cacheKey |-> cacheKey,
                 cachedNews |-> cachedNews,
                 gnews |-> NotCalled, newsapi |-> NotCalled,
                 netCalls |-> IF ~hit /\ config.gnewsApiKey
                              THEN <<[to |-> "gnews", q |-> BuildQuery(preferences)]>>
                              ELSE <<>>,
                 news |-> Null, source |-> "mock",
                 ret |-> atOnce,
                 finishedAt |-> IF hit THEN now ELSE -1,
                 rnd |-> <<>>, expiresAt |-> -1,
                 removed |-> FALSE, overwritten |-> FALSE]
    IN  /\ Len(calls) < MaxCalls
        /\ cache' = CacheAfterGet(cache, cacheKey, now)
        /\ calls' = Append(calls, call)
        /\ UNCHANGED <<now, ticks, config, invalidations,
                       last, prev, ops, written, expiredSeen>>

GetNewsInputs == {<<>>, <<S_a, S_b>>, <<S_b, S_a>>, <<S_a, S_a>>}

SearchQueries == {S_a}

SearchPrefs == {Arr(<<S_b>>)}

GetNews ==
    /\ \E preferences \in GetNewsInputs :
          Begin("getNews", <<>>, preferences, preferences)
    /\ UNCHANGED <<users, signups, requests>>

SearchNews ==
    /\ \E query \in SearchQueries, preferences \in SearchPrefs :
          Begin("searchNews", query, preferences.items, SearchTerms(query, preferences))
    /\ UNCHANGED <<users, signups, requests>>

\* the providers asked again for as long as neither has articles
FinishRetry(c, call, news, source, rnd) ==
    IF NeedsNext(news)
    THEN /\ calls' = [calls EXCEPT ![c] =
                         [call EXCEPT !.pc = "awaitGNews",
                                      !.gnews = NotCalled, !.newsapi = NotCalled,
                                      !.news = Null, !.source = "mock",
                                      !.netCalls = SelectSeq(@, LAMBDA r : r.to = "gnews")]]
         /\ UNCHANGED cache
    ELSE LET store == CacheSet(cache, call.cacheKey, news, Undefined, now)
         IN  /\ cache' = store
             /\ calls' = [MarkOverwritten(calls, call.cacheKey) EXCEPT ![c] =
                             [call EXCEPT !.pc = "done",
                                          !.ret = [news |-> news, cached |-> FALSE,
                                                   source |-> source],
                                          !.finishedAt = now,
                                          !.expiresAt = store[call.cacheKey].expiresAt]]

\* the end of a call that missed: the mock fallback, cache.set, the return
Finish(c, call, news, source, rnd) ==
    LET mock == NeedsNext(news)
        finalNews == IF mock
                     THEN Arr(GenerateMockNews(call.preferences, now, rnd))
                     ELSE news
        finalSource == IF mock THEN "mock" ELSE source
        store == CacheSet(cache, call.cacheKey, finalNews, Undefined, now)
    IN  /\ cache' = store
        /\ calls' = [MarkOverwritten(calls, call.cacheKey) EXCEPT ![c] =
                        [call EXCEPT !.pc = "done",
                                     !.news = finalNews,
                                     !.source = finalSource,
                                     !.ret = [news |-> finalNews, cached |-> FALSE,
                                              source |-> finalSource],
                                     !.finishedAt = now,
                                     !.rnd = IF mock THEN rnd ELSE <<>>,
                                     !.expiresAt = store[call.cacheKey].expiresAt]]

Reject(c, call) ==
    /\ calls' = [calls EXCEPT ![c] = [call EXCEPT !.pc = "rejected"]]
    /\ UNCHANGED cache

RandomChoices(preferences) ==
    [1..(Len(MockTopics(preferences)) - 1) -> RandomOffsets]

\* the await of fetchFromGNews in the call c is over
GNewsResolvesIn(c) ==
    /\ calls[c].pc = "awaitGNews"
    /\ \E resp \in GNewsResponses, rnd \in RandomChoices(calls[c].preferences) :
          LET outcome == FetchFromGNews(config, resp)
              try == AfterTry(calls[c].news, outcome)
              source == IF outcome.kind = "returned" /\ Usable(outcome.value)
                        THEN "gnews" ELSE calls[c].source
              call == [calls[c] EXCEPT !.gnews = outcome, !.news = try.news,
                                       !.source = source]
          IN  IF try.rejected THEN Reject(c, call)
              ELSE IF NeedsNext(try.news)
              THEN /\ calls' = [calls EXCEPT ![c] =
                          [call EXCEPT
                             !.pc = "awaitNewsAPI",
                             !.netCalls =
                                 IF config.newsApiKey
                                 THEN Append(@, [to |-> "newsapi",
                                                 q |-> BuildQuery(call.preferences)])
                                 ELSE @]]
                   /\ UNCHANGED cache
              ELSE Finish(c, call, try.news, source, rnd)
    /\ UNCHANGED <<users, signups, requests, now, ticks, config, invalidations,
                   last, prev, ops, written, expiredSeen>>

GNewsResolves == \E c \in DOMAIN calls : GNewsResolvesIn(c)

\* the await of fetchFromNewsAPI in the call c is over
NewsAPIResolvesIn(c) ==
    /\ calls[c].pc = "awaitNewsAPI"
    /\ \E resp \in NewsAPIResponses, rnd \in RandomChoices(calls[c].preferences) :
          LET outcome == FetchFromNewsAPI(config, resp)
              try == AfterTry(calls[c].news, outcome)
              source == IF outcome.kind = "returned" /\ Usable(outcome.value)
                        THEN "newsapi" ELSE calls[c].source
              call == [calls[c] EXCEPT !.newsapi = outcome, !.news = try.news,
                                       !.source = source]
          IN  IF try.rejected THEN Reject(c, call)
              ELSE Finish(c, call, try.news, source, rnd)
    /\ UNCHANGED <<users, signups, requests, now, ticks, config, invalidations,
                   last, prev, ops, written, expiredSeen>>

NewsAPIResolves == \E c \in DOMAIN calls : NewsAPIResolvesIn(c)

\* cache.delete(key) and cache.clear() from the tooling, while calls run
Delete ==
    /\ invalidations < MaxInvalidations
    /\ \E key \in DOMAIN cache :
          /\ cache' = CacheDelete(cache, key)
          /\ calls' = MarkRemoved(calls, {key})
    /\ invalidations' = invalidations + 1
    /\ UNCHANGED <<users, signups, requests, now, ticks, config, last, prev, ops, written, expiredSeen>>

Clear ==
    /\ invalidations < MaxInvalidations
    /\ cache # EmptyStore
    /\ cache' = CacheClear(cache)
    /\ calls' = MarkRemoved(calls, DOMAIN cache)
    /\ invalidations' = invalidations + 1
    /\ UNCHANGED <<users, signups, requests, now, ticks, config, last, prev, ops, written, expiredSeen>>

Init == \E cfg \in [gnewsApiKey : BOOLEAN, newsApiKey : BOOLEAN] : InitWith(cfg)

Next == GetNews \/ SearchNews \/ GNewsResolves \/ NewsAPIResolves
        \/ Delete \/ Clear \/ Tick

Spec == Init /\ [][Next]_vars

\* the step that ends the await the call c is at
Resolves(c) ==
    /\ c \in DOMAIN calls
    /\ (GNewsResolvesIn(c) \/ NewsAPIResolvesIn(c))

\* every await of a provider comes to an end: axios answers, fails or times
\* out after 10 s, and the event loop then resumes the call
\* the calls and the providers' answers
NextFair == GetNews \/ SearchNews \/ GNewsResolves \/ NewsAPIResolves

FairSpec ==
    Init /\ [][NextFair]_vars /\ \A c \in 1..MaxCalls : WF_vars(Resolves(c))

(***************************************************************************)
(* The HTTP layer: the validation middleware, the user controller, the     *)
(* in-memory user store and the news controller.                           *)
(*   users     the store's Map in insertion order; a user's id is its      *)
(*             place; of a user the email and the preferences array are    *)
(*             kept                                                        *)
(*   signups   the POST /users/signup requests, each waiting for           *)
(*             bcrypt.hash or answered                                     *)
(*   requests  the authenticated requests, each with the preference array  *)
(*             its handler handed to newsService (passed) and the call it  *)
(*             started                                                     *)
(* A request is authenticated by the token of a user of the store; a       *)
(* request parameter or body field is undefined or a string (Raw) or an    *)
(* array of strings.                                                       *)
(***************************************************************************)
MaxSignups == 2
MaxRequests == 2

Raw(units) == [kind |-> "string", units |-> units]

S_sp_A_sp == <<32, 65, 32>>

S_sp == <<32>>

E_lower == <<97, 64, 98, 46, 99>>

E_upper == <<65, 64, 98, 46, 99>>

\* the white space String.prototype.trim removes, within ASCII
WhiteSpace == {9, 10, 11, 12, 13, 32}

RECURSIVE TrimStart(_)
TrimStart(s) ==
    IF s # <<>> /\ Head(s) \in WhiteSpace THEN TrimStart(Tail(s)) ELSE s

RECURSIVE TrimEnd(_)
TrimEnd(s) ==
    IF s # <<>> /\ s[Len(s)] \in WhiteSpace
    THEN TrimEnd(SubSeq(s, 1, Len(s) - 1)) ELSE s

\* s.trim()
Trim(s) == TrimEnd(TrimStart(s))

Lower(c) == IF c \in 65..90 THEN c + 32 ELSE c

\* s.toLowerCase(), within ASCII
ToLowerCase(s) == [i \in 1..Len(s) |-> Lower(s[i])]

\* validateSignup on the preferences of the body (name, email and password
\* are taken to pass): optional, an array when there
ValidSignup(preferences) ==
    preferences.kind = "undefined" \/ preferences.kind = "array"

\* validatePreferences
ValidPreferences(preferences) ==
    /\ ~Falsy(preferences)
    /\ preferences.kind = "array"
    /\ \A i \in 1..Len(preferences.items) : Trim(preferences.items[i]) # <<>>

\* preferences.map(p => p.trim().toLowerCase())
Sanitize(preferences) ==
    [i \in 1..Len(preferences) |-> ToLowerCase(Trim(preferences[i]))]

\* userStore.findByEmail(email): the id of the first user with that very
\* email, 0 for null
FindByEmail(us, email) ==
    IF \E i \in DOMAIN us : us[i].email = email
    THEN CHOOSE i \in DOMAIN us :
            /\ us[i].email = email
            /\ \A j \in DOMAIN us : us[j].email = email => i <= j
    ELSE 0

\* userStore.create(userData): the store after the call
Create(us, userData) ==
    Append(us, [email |-> userData.email,
                preferences |-> IF Falsy(userData.preferences)
                                THEN Arr(<<>>) ELSE userData.preferences])

\* userStore.updatePreferences(id, preferences): the store after the call
StoreUpdatePreferences(us, id, preferences) ==
    IF id \in DOMAIN us THEN [us EXCEPT ![id].preferences = preferences] ELSE us

Emails == {E_lower, E_upper}

SignupPreferences ==
    {Undefined, Raw(S_a), Arr(<<S_sp_A_sp>>), Arr(<<S_b, S_a>>)}

UpdateBodies ==
    {Undefined, Arr(<<S_sp>>), Arr(<<S_sp_A_sp, S_b>>)}

SearchParams == {Undefined, Raw(S_sp_A_sp), Raw(S_b)}

TopicParams == {Raw(S_sp), Raw(S_sp_A_sp)}

\* !v || v.trim().length === 0
Blank(v) == Falsy(v) \/ Trim(v.units) = <<>>

Answered(route, u, status) ==
    [route |-> route, user |-> u, status |-> status, passed |-> Null, call |-> 0]

Started(route, u, passed) ==
    [route |-> route, user |-> u, status |-> 0, passed |-> passed,
     call |-> Len(calls) + 1]

\* POST /users/signup up to the await of bcrypt.hash
Signup ==
    /\ Len(signups) < MaxSignups
    /\ \E email \in Emails, preferences \in SignupPreferences :
          LET body == [email |-> email, preferences |-> preferences]
          IN  signups' = Append(signups,
                  IF ~ValidSignup(preferences)
                  THEN [pc |-> "done", status |-> 400, body |-> body]
                  ELSE IF FindByEmail(users, email) # 0
                  THEN [pc |-> "done", status |-> 400, body |-> body]
                  ELSE [pc |-> "hashing", status |-> 0, body |-> body])
    /\ UNCHANGED <<users, requests, now, ticks, cache, config, calls, invalidations,
                   last, prev, ops, written, expiredSeen>>

\* the await of bcrypt.hash is over: userStore.create and the answer
SignupHashed ==
    \E s \in DOMAIN signups :
        /\ signups[s].pc = "hashing"
        /\ LET body == signups[s].body
           IN  users' = Create(users,
                   [email |-> Trim(ToLowerCase(body.email)),
                    preferences |-> IF Falsy(body.preferences)
                                    THEN Arr(<<>>) ELSE body.preferences])
        /\ signups' = [signups EXCEPT ![s].pc = "done", ![s].status = 200]
        /\ UNCHANGED <<requests, now, ticks, cache, config, calls, invalidations,
                       last, prev, ops, written, expiredSeen>>

\* PUT /users/preferences
UpdatePreferences ==
    /\ Len(requests) < MaxRequests
    /\ \E u \in DOMAIN users, preferences \in UpdateBodies :
          IF ValidPreferences(preferences)
          THEN /\ users' = StoreUpdatePreferences(users, u,
                               Arr(Sanitize(preferences.items)))
               /\ requests' = Append(requests, Answered("PUT /users/preferences", u, 200))
          ELSE /\ users' = users
               /\ requests' = Append(requests, Answered("PUT /users/preferences", u, 400))
    /\ UNCHANGED <<signups, now, ticks, cache, config, calls, invalidations,
                   last, prev, ops, written, expiredSeen>>

\* GET /news up to the first await of newsService.getNews: req.user.preferences
\* is the array of the store itself
HandleGetNews ==
    /\ Len(requests) < MaxRequests
    /\ \E u \in DOMAIN users :
          LET userPreferences == users[u].preferences
          IN  /\ Begin("getNews", <<>>, userPreferences.items, userPreferences.items)
              /\ users' = StoreUpdatePreferences(users, u,
                              AfterGenerateKey(userPreferences))
              /\ requests' = Append(requests, Started("GET /news", u, userPreferences))
    /\ UNCHANGED signups

\* GET /news/search?q=
HandleSearchNews ==
    /\ Len(requests) < MaxRequests
    /\ \E u \in DOMAIN users, q \in SearchParams :
          IF Blank(q)
          THEN /\ requests' = Append(requests, Answered("GET /news/search", u, 400))
               /\ UNCHANGED <<now, ticks, cache, config, calls, invalidations,
                              last, prev, ops, written, expiredSeen>>
          ELSE LET query == Trim(q.units)
                   searchTerms == SearchTerms(query, users[u].preferences)
               IN  /\ Begin("searchNews", query, users[u].preferences.items, searchTerms)
                   /\ requests' = Append(requests,
                          Started("GET /news/search", u, Arr(searchTerms)))
    /\ UNCHANGED <<users, signups>>

\* GET /news/topic/:topic
HandleGetNewsByTopic ==
    /\ Len(requests) < MaxRequests
    /\ \E u \in DOMAIN users, topic \in TopicParams :
          IF Blank(topic)
          THEN /\ requests' = Append(requests, Answered("GET /news/topic", u, 400))
               /\ UNCHANGED <<now, ticks, cache, config, calls, invalidations,
                              last, prev, ops, written, expiredSeen>>
          ELSE LET preferences == <<ToLowerCase(Trim(topic.units))>>
               IN  /\ Begin("getNews", <<>>, preferences, preferences)
                   /\ requests' = Append(requests,
                          Started("GET /news/topic", u, Arr(preferences)))
    /\ UNCHANGED <<users, signups>>

\* the service behind its HTTP handlers, no provider configured
NextHttp == Signup \/ SignupHashed \/ UpdatePreferences
            \/ HandleGetNews \/ HandleSearchNews \/ HandleGetNewsByTopic
            \/ GNewsResolves \/ NewsAPIResolves

SpecHttp == InitCache /\ [][NextHttp]_vars

(***************************************************************************)
(* Helpers of the properties.                                              *)
(***************************************************************************)
Occurrences(x, seq) == Cardinality({i \in 1..Len(seq) : seq[i] = x})

Elements(seq) == {seq[i] : i \in 1..Len(seq)}

SameMultiset(s, t) ==
    /\ Len(s) = Len(t)
    /\ \A x \in Elements(s) \cup Elements(t) : Occurrences(x, s) = Occurrences(x, t)

Rearrangements(seq) ==
    {p \in SeqsUpTo(Elements(seq), Len(seq)) : SameMultiset(p, seq)}

Done(c) == calls[c].pc = "done"

Missed(c) == Done(c) /\ ~calls[c].ret.cached

\* the provider call gave nothing usable: it declined (null), failed or
\* returned an empty collection
Unusable(outcome) ==
    \/ outcome.kind = "threw"
    \/ (outcome.kind = "returned" /\ ~Usable(outcome.value))

\* the entry the call c stored is still the one under its key
StillStored(c) ==
    /\ Missed(c)
    /\ ~calls[c].removed
    /\ ~calls[c].overwritten
    /\ now <= calls[c].expiresAt

(***************************************************************************)
(* C1 (as amended).  Cache write-through: a call that missed returns       *)
(* cached = FALSE, and as long as the entry it stored has not expired, has *)
(* not been deleted or cleared and has not been replaced by the set of     *)
(* another call that missed the same key, a getNews issued with any        *)
(* permutation of its preferences returns at once cached = TRUE,           *)
(* source = "cache" and exactly the articles the first call returned.      *)
(***************************************************************************)
WriteThroughUnlessReplaced ==
    \A c \in DOMAIN calls :
        /\ (Done(c) /\ Falsy(calls[c].cachedNews)) => ~calls[c].ret.cached
        /\ StillStored(c) =>
              \A p \in Rearrangements(calls[c].given) :
                  GetNewsAtOnce(cache, p, now) =
                      [news |-> calls[c].ret.news, cached |-> TRUE, source |-> "cache"]

\* a second call with the preferences in another order was served from the
\* cache what the first had fetched from a provider
WriteThroughWitness ==
    \E c1, c2 \in DOMAIN calls :
        /\ c1 < c2
        /\ Missed(c1) /\ calls[c1].ret.source = "newsapi"
        /\ Done(c2) /\ calls[c2].ret.cached
        /\ calls[c2].given # calls[c1].given
        /\ SameMultiset(calls[c2].given, calls[c1].given)
        /\ calls[c2].ret.news = calls[c1].ret.news

\* C1 as stated: only expiry, delete and clear are excluded
WriteThroughAsStated ==
    \A c \in DOMAIN calls :
        /\ (Done(c) /\ Falsy(calls[c].cachedNews)) => ~calls[c].ret.cached
        /\ (Missed(c) /\ ~calls[c].removed /\ now <= calls[c].expiresAt) =>
              \A p \in Rearrangements(calls[c].given) :
                  GetNewsAtOnce(cache, p, now) =
                      [news |-> calls[c].ret.news, cached |-> TRUE, source |-> "cache"]

(***************************************************************************)
(* C2.  Fallback ordering: when GNews is configured and returns at least   *)
(* one article, the call returns source = "gnews" and exactly GNews's      *)
(* articles, whatever NewsAPI's configuration; NewsAPI is not asked.       *)
(***************************************************************************)
PrimaryWins ==
    \A c \in DOMAIN calls :
        (/\ calls[c].pc \notin {"awaitGNews"}
         /\ calls[c].gnews.kind = "returned"
         /\ Usable(calls[c].gnews.value)) =>
            /\ Done(c)
            /\ calls[c].ret = [news |-> calls[c].gnews.value, cached |-> FALSE,
                               source |-> "gnews"]
            /\ calls[c].newsapi = NotCalled

PrimaryWinsWitness ==
    \E c \in DOMAIN calls :
        /\ Done(c)
        /\ config.gnewsApiKey /\ config.newsApiKey
        /\ calls[c].ret.source = "gnews"
        /\ Len(calls[c].ret.news.items) = 2

(***************************************************************************)
(* C3.  Fallback exhaustion: when both providers decline, fail or return   *)
(* an empty collection, the call returns source = "mock" and exactly       *)
(* 3 + max(0, n - 1) articles, n the number of preferences.                *)
(***************************************************************************)
MockCount(n) == 3 + (IF n - 1 > 0 THEN n - 1 ELSE 0)

ExhaustionYieldsMock ==
    \A c \in DOMAIN calls :
        (/\ Done(c)
         /\ Unusable(calls[c].gnews)
         /\ Unusable(calls[c].newsapi)) =>
            /\ calls[c].ret.source = "mock"
            /\ ~calls[c].ret.cached
            /\ Len(calls[c].ret.news.items) = MockCount(Len(calls[c].given))

ExhaustionWitness ==
    \E c \in DOMAIN calls :
        /\ Done(c)
        /\ calls[c].gnews.kind = "threw"
        /\ calls[c].newsapi = Returned(Arr(<<>>))
        /\ Len(calls[c].given) = 2
        /\ Len(calls[c].ret.news.items) = 4

(***************************************************************************)
(* C4.  The pipeline never returns an error: no call is rejected, and      *)
(* every call that has returned returned a non-empty article collection.   *)
(***************************************************************************)
NeverRejects ==
    \A c \in DOMAIN calls :
        /\ calls[c].pc # "rejected"
        /\ Done(c) =>
              /\ calls[c].ret.news.kind = "array"
              /\ Len(calls[c].ret.news.items) > 0

\* both providers failed and the call still returned articles
NeverRejectsWitness ==
    \E c \in DOMAIN calls :
        /\ Done(c)
        /\ calls[c].gnews.kind = "threw"
        /\ calls[c].newsapi.kind = "threw"
        /\ Len(calls[c].ret.news.items) > 0

(***************************************************************************)
(* C5.  Key derivation is order-independent: two preference arrays with    *)
(* the same multiset of strings get the same key, and the empty or missing *)
(* array gets the sentinel "news:general".                                 *)
(***************************************************************************)
IsMissingOrEmpty(arg) == arg.kind # "array" \/ arg.items = <<>>

KeyOrderIndependent ==
    /\ (/\ last.op = "generateKey" /\ prev.op = "generateKey"
        /\ last.arg.kind = "array" /\ prev.arg.kind = "array"
        /\ SameMultiset(last.arg.items, prev.arg.items)) =>
            last.res = prev.res
    /\ (last.op = "generateKey" /\ IsMissingOrEmpty(last.arg)) =>
            last.res = <<110, 101, 119, 115, 58, 103, 101, 110, 101, 114, 97, 108>>

\* two different orders of the same two strings were keyed one after the other
KeyOrderWitness ==
    /\ last.op = "generateKey" /\ prev.op = "generateKey"
    /\ last.arg.kind = "array" /\ prev.arg.kind = "array"
    /\ Len(last.arg.items) = 2
    /\ last.arg # prev.arg
    /\ SameMultiset(last.arg.items, prev.arg.items)
    /\ last.res = prev.res

(***************************************************************************)
(* C6.  Cache round-trip: after set(k, v), with no later set, delete or    *)
(* clear on k, a get(k) not later than the entry's expiry returns v and a  *)
(* get(k) after the expiry returns null.                                   *)
(***************************************************************************)
CacheRoundTrip ==
    (last.op = "get" /\ last.key \in DOMAIN written) =>
        IF last.at <= written[last.key].expiresAt
        THEN last.res = written[last.key].data
        ELSE last.res = Null

\* a get at the very expiry time returned the stored articles
RoundTripWitness ==
    /\ last.op = "get" /\ last.key \in DOMAIN written
    /\ last.at = written[last.key].expiresAt
    /\ last.at > 0
    /\ last.res.kind = "array"
    /\ last.res = written[last.key].data

(***************************************************************************)
(* C7.  No stale data: a get never returns the data of an entry whose      *)
(* expiresAt is less than the current time, and once a get has seen the    *)
(* key expired, no later get returns data until a new set on the key.      *)
(***************************************************************************)
NoStaleData ==
    last.op = "get" =>
        /\ (/\ last.key \in DOMAIN last.before
            /\ last.before[last.key].expiresAt < last.at) => last.res = Null
        /\ last.seenExpiredBefore => last.res = Null

\* a get found articles that had expired
NoStaleDataWitness ==
    /\ last.op = "get"
    /\ last.key \in DOMAIN last.before
    /\ last.before[last.key].expiresAt < last.at
    /\ last.before[last.key].data.kind = "array"
    /\ last.res = Null

(***************************************************************************)
(* C8.  Idempotent eviction: two gets in a row on an expired key both      *)
(* return null, the first removes the entry and the second leaves the      *)
(* store as it found it.                                                   *)
(***************************************************************************)
IdempotentEviction ==
    (/\ prev.op = "get" /\ last.op = "get"
     /\ prev.key = last.key
     /\ prev.key \in DOMAIN prev.before
     /\ prev.at > prev.before[prev.key].expiresAt) =>
        /\ prev.res = Null
        /\ last.res = Null
        /\ last.before = Without(prev.before, prev.key)
        /\ cache = last.before

\* the second of two gets on a key whose articles had expired has run
IdempotentEvictionWitness ==
    /\ prev.op = "get" /\ last.op = "get"
    /\ prev.key = last.key
    /\ prev.key \in DOMAIN prev.before
    /\ prev.at > prev.before[prev.key].expiresAt
    /\ prev.before[prev.key].data.kind = "array"
    /\ last.res = Null
    /\ prev.key \notin DOMAIN cache

(***************************************************************************)
(* C9.  Search composition: searchNews(q, P) and getNews(P with q          *)
(* appended), finding the same thing in the cache and meeting the same     *)
(* provider behaviour at the same time, use the same key and return the    *)
(* same result.                                                            *)
(***************************************************************************)
SameCircumstances(c1, c2) ==
    /\ calls[c1].cachedNews = calls[c2].cachedNews
    /\ calls[c1].gnews = calls[c2].gnews
    /\ calls[c1].newsapi = calls[c2].newsapi
    /\ calls[c1].rnd = calls[c2].rnd
    /\ calls[c1].finishedAt = calls[c2].finishedAt

SearchIsGetNewsOfUnion ==
    \A c1, c2 \in DOMAIN calls :
        (/\ Done(c1) /\ Done(c2)
         /\ calls[c1].op = "searchNews" /\ calls[c2].op = "getNews"
         /\ calls[c2].args = Append(calls[c1].args, calls[c1].query)
         /\ SameCircumstances(c1, c2)) =>
            /\ calls[c1].cacheKey = calls[c2].cacheKey
            /\ calls[c1].ret = calls[c2].ret

\* a search under a non-empty preference set and the matching getNews both
\* went through the providers
SearchCompositionWitness ==
    \E c1, c2 \in DOMAIN calls :
        /\ Done(c1) /\ Done(c2)
        /\ calls[c1].op = "searchNews" /\ calls[c2].op = "getNews"
        /\ Len(calls[c1].args) > 0
        /\ calls[c2].args = Append(calls[c1].args, calls[c1].query)
        /\ SameCircumstances(c1, c2)
        /\ ~calls[c1].ret.cached
        /\ calls[c1].ret = calls[c2].ret

(***************************************************************************)
(* C10.  Synthesis lead topic: with a non-empty preference set and no      *)
(* usable provider result, the synthetic articles (3 + n - 1 of them) take *)
(* as lead topic the first element of the preference set as the caller     *)
(* supplied it, and the call returns cached = FALSE.                       *)
(***************************************************************************)
LeadTopicIsCallersFirst ==
    \A c \in DOMAIN calls :
        (/\ Done(c) /\ ~calls[c].ret.cached
         /\ calls[c].ret.source = "mock"
         /\ Len(calls[c].given) > 0) =>
            /\ Len(calls[c].ret.news.items) = 3 + Len(calls[c].given) - 1
            /\ \A i \in 1..3 :
                  calls[c].ret.news.items[i].title.arg = calls[c].given[1]

(***************************************************************************)
(* C11.  Key derivation is pure: generateKey(preferences) changes neither  *)
(* the store nor its argument; after the call the caller's array holds the *)
(* same elements in the same order as before.                              *)
(***************************************************************************)
GenerateKeyIsPure ==
    last.op = "generateKey" =>
        /\ cache = last.before
        /\ last.argAfter = last.arg

(***************************************************************************)
(* C12.  set(key, data, ttl) replaces any entry under key by data alone    *)
(* and stores expiresAt = now + ttl for every ttl supplied, 0 included,    *)
(* and now + 5 minutes when ttl is omitted.                                *)
(***************************************************************************)
SetStoresSuppliedTtl ==
    last.op = "set" =>
        /\ last.key \in DOMAIN cache
        /\ cache[last.key].data = last.data
        /\ cache[last.key].expiresAt =
              last.at + (IF last.customTtl.kind = "undefined"
                         THEN 5 * 60 * 1000
                         ELSE last.customTtl.n)

(***************************************************************************)
(* C13.  In every state of the store and at every clock value, getStats    *)
(* reports validEntries + expiredEntries = totalEntries, totalEntries the  *)
(* number of stored entries, an entry counted expired exactly when         *)
(* now > expiresAt.                                                        *)
(***************************************************************************)
StatsAddUpFor(stats, c, t) ==
    /\ stats.validEntries + stats.expiredEntries = stats.totalEntries
    /\ stats.totalEntries = Cardinality(DOMAIN c)
    /\ stats.expiredEntries = Cardinality({k \in DOMAIN c : t > c[k].expiresAt})

StatsAddUp ==
    /\ StatsAddUpFor(GetStats(cache, now), cache, now)
    /\ last.op = "getStats" => StatsAddUpFor(last.res, last.before, last.at)

\* getStats counted one entry still valid and one expired
StatsWitness ==
    /\ last.op = "getStats"
    /\ last.res.validEntries = 1
    /\ last.res.expiredEntries = 1
    /\ last.res.totalEntries = 2

(***************************************************************************)
(* C14.  Every preference array the HTTP handlers hand to the pipeline     *)
(* (the stored profile from signup or from a preferences update, the       *)
(* profile with the search query appended, the topic parameter) holds      *)
(* only non-empty, trimmed, lowercase strings.                             *)
(***************************************************************************)
Normalized(s) == s # <<>> /\ Trim(s) = s /\ ToLowerCase(s) = s

HandlersPassNormalized ==
    \A r \in DOMAIN requests :
        requests[r].passed.kind = "array" =>
            \A i \in 1..Len(requests[r].passed.items) :
                Normalized(requests[r].passed.items[i])

(***************************************************************************)
(* C15.  Termination: every provider await coming to an end, every         *)
(* getNews or searchNews call eventually returns a result.                 *)
(***************************************************************************)
EveryCallReturns ==
    \A c \in 1..MaxCalls :
        (c \in DOMAIN calls) ~> (c \in DOMAIN calls /\ calls[c].pc = "done")

\* a call that waited for both providers has returned
EveryCallReturnsWitness ==
    \E c \in DOMAIN calls :
        /\ Done(c)
        /\ calls[c].gnews.kind = "threw"
        /\ calls[c].newsapi.kind = "returned"
        /\ Len(calls[c].netCalls) = 2

(***************************************************************************)
(* C16.  A cache hit skips all provider attempts: a getNews that finds an  *)
(* unexpired entry under the derived key returns that entry's data with    *)
(* source = "cache" at once, asks neither GNews nor NewsAPI nor the mock   *)
(* generator, and leaves the store (the entry and its expiry) as it was.   *)
(***************************************************************************)
FoundUnexpired(call) ==
    /\ call.cacheKey \in DOMAIN cache
    /\ now <= cache[call.cacheKey].expiresAt

NoProviderAsked(call) ==
    /\ call.gnews = NotCalled
    /\ call.newsapi = NotCalled
    /\ call.netCalls = <<>>
    /\ call.rnd = <<>>

CacheHitSkipsProviders ==
    [][\A c \in DOMAIN calls' :
          /\ (c \notin DOMAIN calls /\ FoundUnexpired(calls'[c])) =>
                /\ calls'[c].pc = "done"
                /\ calls'[c].ret = [news |-> cache[calls'[c].cacheKey].data,
                                    cached |-> TRUE, source |-> "cache"]
                /\ NoProviderAsked(calls'[c])
                /\ cache' = cache
          /\ (calls'[c].pc = "done" /\ calls'[c].ret.cached) =>
                NoProviderAsked(calls'[c])]_vars

\* with GNews configured, a later call was served at the very expiry time
\* what an earlier one had stored, and the entry still expires when it did
CacheHitWitness ==
    \E c1, c2 \in DOMAIN calls :
        /\ config.gnewsApiKey
        /\ Missed(c1)
        /\ Done(c2) /\ calls[c2].ret.cached
        /\ calls[c2].finishedAt = calls[c1].expiresAt
        /\ calls[c2].netCalls = <<>>
        /\ calls[c2].cacheKey \in DOMAIN cache
        /\ cache[calls[c2].cacheKey].expiresAt = calls[c1].expiresAt
        /\ cache[calls[c2].cacheKey].data = calls[c2].ret.news

(***************************************************************************)
(* C17.  Within one call each provider is attempted at most once and in    *)
(* the order GNews, NewsAPI: the NewsAPI attempt starts only when the      *)
(* GNews attempt has resolved, and the mock fallback and the cache write   *)
(* come only when every attempted provider has resolved.                   *)
(***************************************************************************)
ProviderRequests(call, to) ==
    {i \in 1..Len(call.netCalls) : call.netCalls[i].to = to}

InOrder(call) ==
    /\ Cardinality(ProviderRequests(call, "gnews")) <= 1
    /\ Cardinality(ProviderRequests(call, "newsapi")) <= 1
    /\ \A i \in ProviderRequests(call, "gnews"), j \in ProviderRequests(call, "newsapi") :
          i < j
    /\ (ProviderRequests(call, "newsapi") # {} \/ call.newsapi # NotCalled) =>
          call.gnews # NotCalled
    /\ call.pc = "awaitGNews" =>
          /\ call.gnews = NotCalled /\ call.newsapi = NotCalled
          /\ call.ret = Null /\ call.rnd = <<>> /\ call.expiresAt = -1
    /\ call.pc = "awaitNewsAPI" =>
          /\ call.gnews # NotCalled /\ call.newsapi = NotCalled
          /\ call.ret = Null /\ call.rnd = <<>> /\ call.expiresAt = -1

Awaiting(call) == call.pc \in {"awaitGNews", "awaitNewsAPI"}

SequentialAttempts ==
    [][/\ \A c \in DOMAIN calls' : InOrder(calls'[c])
       /\ \A c \in DOMAIN calls :
             /\ calls[c].gnews # NotCalled => calls'[c].gnews = calls[c].gnews
             /\ calls[c].newsapi # NotCalled => calls'[c].newsapi = calls[c].newsapi
             /\ calls[c].pc = "awaitNewsAPI" => calls'[c].pc \in {"awaitNewsAPI", "done"}
             /\ calls[c].pc = "done" =>
                   /\ calls'[c].pc = "done"
                   /\ calls'[c].netCalls = calls[c].netCalls
       /\ \A k \in DOMAIN cache' :
             (k \notin DOMAIN cache \/ cache'[k] # cache[k]) =>
                 \E c \in DOMAIN calls :
                     /\ calls[c].cacheKey = k
                     /\ Awaiting(calls[c])
                     /\ calls'[c].pc = "done"
                     /\ calls'[c].gnews # NotCalled
                     /\ calls[c].pc = "awaitNewsAPI" => calls'[c].newsapi # NotCalled]_vars

\* both providers configured: a call asked GNews, then NewsAPI, then fell
\* back to the mock articles
SequentialWitness ==
    \E c \in DOMAIN calls :
        /\ Done(c)
        /\ Len(calls[c].netCalls) = 2
        /\ calls[c].netCalls[1].to = "gnews"
        /\ calls[c].netCalls[2].to = "newsapi"
        /\ calls[c].ret.source = "mock"

(***************************************************************************)
(* C18.  Exactly one source contributes the result and the tag names it:   *)
(* NewsAPI is attempted exactly when GNews declined, failed or returned    *)
(* an empty collection; the mock generator runs exactly when neither       *)
(* provider returned a non-empty collection; and the returned source is    *)
(* "gnews", "newsapi" or "mock" exactly when the returned articles are,    *)
(* all of them, the ones that source produced.                             *)
(***************************************************************************)
ReturnedNonEmpty(outcome) ==
    outcome.kind = "returned" /\ Usable(outcome.value)

NewsAPIAttempted(call) ==
    call.pc = "awaitNewsAPI" \/ call.newsapi # NotCalled

\* the articles returned are those generateMockNews made for this call
IsMockOf(call) ==
    /\ Len(call.rnd) = Len(MockTopics(call.preferences)) - 1
    /\ call.ret.news = Arr(GenerateMockNews(call.preferences, call.finishedAt, call.rnd))

OneSourceContributes ==
    \A c \in DOMAIN calls :
        LET call == calls[c]
        IN  /\ call.gnews # NotCalled =>
                  (NewsAPIAttempted(call) <=> Unusable(call.gnews))
            /\ Missed(c) =>
                  /\ call.ret.source \in {"gnews", "newsapi", "mock"}
                  /\ (call.ret.source = "mock") <=>
                        (~ReturnedNonEmpty(call.gnews) /\ ~ReturnedNonEmpty(call.newsapi))
                  /\ (call.ret.source = "mock") <=> IsMockOf(call)
                  /\ (call.ret.source = "gnews") <=>
                        (/\ ReturnedNonEmpty(call.gnews)
                         /\ call.ret.news = call.gnews.value)
                  /\ (call.ret.source = "newsapi") <=>
                        (/\ ReturnedNonEmpty(call.newsapi)
                         /\ call.ret.news = call.newsapi.value)

\* GNews returned an empty collection and NewsAPI's article was returned
\* under the tag "newsapi"
OneSourceWitness ==
    \E c \in DOMAIN calls :
        /\ Done(c)
        /\ calls[c].gnews = Returned(Arr(<<>>))
        /\ ReturnedNonEmpty(calls[c].newsapi)
        /\ calls[c].ret = [news |-> calls[c].newsapi.value, cached |-> FALSE,
                           source |-> "newsapi"]

(***************************************************************************)
(* C19.  A provider without API key declines: it returns null and sends    *)
(* no request, and the call goes on to the next source as it does after a  *)
(* failed or empty provider: NewsAPI after GNews, the mock generator after *)
(* NewsAPI.                                                                *)
(***************************************************************************)
UnconfiguredDeclines ==
    \A c \in DOMAIN calls :
        LET call == calls[c]
        IN  /\ ~config.gnewsApiKey =>
                  /\ ProviderRequests(call, "gnews") = {}
                  /\ call.gnews # NotCalled =>
                        /\ call.gnews = Returned(Null)
                        /\ NewsAPIAttempted(call)
            /\ ~config.newsApiKey =>
                  /\ ProviderRequests(call, "newsapi") = {}
                  /\ call.newsapi # NotCalled =>
                        /\ call.newsapi = Returned(Null)
                        /\ call.pc = "done"
                        /\ call.ret.source = "mock"
                        /\ IsMockOf(call)

\* GNews without key declined, NewsAPI was then asked and its article returned
UnconfiguredWitness ==
    \E c \in DOMAIN calls :
        /\ ~config.gnewsApiKey /\ config.newsApiKey
        /\ Done(c)
        /\ calls[c].gnews = Returned(Null)
        /\ Len(calls[c].netCalls) = 1
        /\ calls[c].netCalls[1].to = "newsapi"
        /\ calls[c].ret.source = "newsapi"

(***************************************************************************)
(* C20.  No coalescing, last write wins: two calls for the same key can    *)
(* both miss, both ask the providers and both store; each returns          *)
(* cached = FALSE with the articles it fetched itself, and the entry       *)
(* holds exactly the articles of the call that stored last, never the two  *)
(* collections merged.                                                     *)
(***************************************************************************)
OwnArticles(call) ==
    IF ReturnedNonEmpty(call.gnews) THEN call.gnews.value
    ELSE IF ReturnedNonEmpty(call.newsapi) THEN call.newsapi.value
    ELSE Arr(GenerateMockNews(call.preferences, call.finishedAt, call.rnd))

LastWriteWins ==
    \A c1, c2 \in DOMAIN calls :
        (/\ c1 # c2
         /\ Missed(c1) /\ Missed(c2)
         /\ calls[c1].cacheKey = calls[c2].cacheKey
         /\ calls[c1].overwritten /\ ~calls[c2].overwritten) =>
            /\ calls[c1].ret.news = OwnArticles(calls[c1])
            /\ calls[c2].ret.news = OwnArticles(calls[c2])
            /\ (~calls[c2].removed /\ now <= calls[c2].expiresAt) =>
                  /\ calls[c2].cacheKey \in DOMAIN cache
                  /\ cache[calls[c2].cacheKey].data = calls[c2].ret.news
                  /\ cache[calls[c2].cacheKey].expiresAt = calls[c2].expiresAt

\* two calls for one key both missed and both asked GNews before either
\* stored; they fetched different articles, and the entry holds those of the
\* call that began first and stored last
LastWriteWinsWitness ==
    \E c1, c2 \in DOMAIN calls :
        /\ c1 < c2
        /\ ticks = 0 /\ invalidations = 0
        /\ Missed(c1) /\ Missed(c2)
        /\ calls[c1].cacheKey = calls[c2].cacheKey
        /\ calls[c1].given # calls[c2].given
        /\ Len(calls[c1].netCalls) > 0 /\ Len(calls[c2].netCalls) > 0
        /\ calls[c1].ret.source = "gnews" /\ calls[c2].ret.source = "gnews"
        /\ calls[c1].ret.news # calls[c2].ret.news
        /\ calls[c2].overwritten /\ ~calls[c1].overwritten
        /\ cache[calls[c1].cacheKey].data = calls[c1].ret.news

(***************************************************************************)
(* C21.  Operations on different keys do not interfere: the get of a       *)
(* starting call (its lazy eviction included), the set of a finishing call *)
(* and a delete leave the data and the expiry of every entry under another *)
(* key as they were, however the calls interleave.                         *)
(***************************************************************************)
OthersUntouched(k) ==
    \A j \in (DOMAIN cache \cup DOMAIN cache') \ {k} :
        /\ j \in DOMAIN cache /\ j \in DOMAIN cache'
        /\ cache'[j].data = cache[j].data
        /\ cache'[j].expiresAt = cache[j].expiresAt

EvictionOnlyOnRead ==
    /\ \A k \in DOMAIN written \ expiredSeen :
          /\ k \in DOMAIN cache
          /\ cache[k].data = written[k].data
          /\ cache[k].expiresAt = written[k].expiresAt
    /\ last.op = "getStats" =>
          /\ cache = last.before
          /\ last.res.totalEntries = Cardinality(DOMAIN cache)
          /\ last.res.expiredEntries =
                Cardinality({k \in DOMAIN cache : last.at > cache[k].expiresAt})

\* getStats counted an expired entry, and the entry is still stored
EvictionOnlyOnReadWitness ==
    /\ last.op = "getStats"
    /\ last.res.expiredEntries = 1
    /\ last.res.totalEntries = 1
    /\ \E k \in DOMAIN cache :
          /\ now > cache[k].expiresAt
          /\ k \in DOMAIN written
          /\ cache[k].data = written[k].data

(***************************************************************************)
(* C23.  Handling GET /news or GET /news/search leaves the stored          *)
(* preferences of the user as they were: GET /users/preferences keeps      *)
(* returning the list in the order signup or the last update stored it.    *)
(***************************************************************************)
NewsRoutes == {"GET /news", "GET /news/search"}

NewsRequestsLeaveProfile ==
    [][(/\ Len(requests') = Len(requests) + 1
        /\ requests'[Len(requests')].route \in NewsRoutes) =>
            users' = users]_vars

(***************************************************************************)
(* C24.  Cache isolation between preference sets: two preference arrays    *)
(* with different multisets of strings never get the same cache key, the   *)
(* empty array against ["general"] and strings holding a ',' included.     *)
(***************************************************************************)
ItemsOf(arg) == IF arg.kind = "array" THEN arg.items ELSE <<>>

KeysSeparatePreferenceSets ==
    (/\ last.op = "generateKey" /\ prev.op = "generateKey"
     /\ ~SameMultiset(ItemsOf(last.arg), ItemsOf(prev.arg))) =>
        last.res # prev.res

(***************************************************************************)
(* C25.  Email uniqueness: whatever the sequence and interleaving of       *)
(* signup requests, no two stored users have the same email, and a signup  *)
(* whose email, trimmed and lowercased, is already stored is answered 400. *)
(***************************************************************************)
EmailsUnique ==
    \A i, j \in DOMAIN users :
        i # j => users[i].email # users[j].email

(***************************************************************************)
(* C26.  Bounded staleness, no sliding expiry: a cache hit leaves the      *)
(* entry and its expiresAt as they were, every entry expires 5 minutes     *)
(* after it was written, and articles written at time t are not served by  *)
(* getNews after t + 5 minutes, whatever hits came in between.             *)
(***************************************************************************)
WrittenAt(item) == item.cachedAt.ms

NoSlidingExpiry ==
    [][/\ \A c \in DOMAIN calls' :
             (c \notin DOMAIN calls /\ calls'[c].pc = "done") =>
                 LET k == calls'[c].cacheKey
                 IN  /\ k \in DOMAIN cache
                     /\ calls'[c].ret.news = cache[k].data
                     /\ now <= WrittenAt(cache[k]) + 5 * 60 * 1000
                     /\ k \in DOMAIN cache'
                     /\ cache'[k] = cache[k]
       /\ \A k \in DOMAIN cache' :
             /\ cache'[k].expiresAt = WrittenAt(cache'[k]) + 5 * 60 * 1000
             /\ \A p \in GetNewsInputs :
                   (GenerateKey(Arr(p)) = k /\ GetNewsAtOnce(cache', p, now') # Null) =>
                       now' <= WrittenAt(cache'[k]) + 5 * 60 * 1000]_vars

\* articles stored at time 0 were served exactly 5 minutes later, and a
\* further call at that time would be served them with the expiry unmoved
NoSlidingExpiryWitness ==
    \E c1, c2 \in DOMAIN calls :
        /\ Missed(c1) /\ calls[c1].finishedAt = 0
        /\ Done(c2) /\ calls[c2].ret.cached
        /\ calls[c2].cacheKey = calls[c1].cacheKey
        /\ calls[c2].finishedAt = 5 * 60 * 1000
        /\ cache[calls[c1].cacheKey].expiresAt = 5 * 60 * 1000
        /\ GetNewsAtOnce(cache, calls[c2].given, now) = calls[c2].ret

====
